---- MODULE Spec2Model ----
(***************************************************************************)
(* State-machine model of the Sisense build scheduler scripts:             *)
(*   sisense_build_chain.py    parallel batch, then a short-circuit chain  *)
(*   commpeak_orchestrator.py  bounded loop, then two finalization cubes   *)
(*   sisense_trigger_build.py  one trigger, no wait                        *)
(* and of the wait_for_build polling loop the first two share.             *)
(*                                                                         *)
(* Time is counted in ticks.  BuildTimeout and PollInterval are the        *)
(* scaled-down BUILD_TIMEOUT_MINUTES * 60 and POLL_INTERVAL_SECONDS: the   *)
(* loop reads them only through "now + timeout", "now > deadline" and      *)
(* "sleep(interval)".                                                      *)
(***************************************************************************)
EXTENDS Integers, Sequences, FiniteSets, TLC

VARIABLES
    script,         \* which program runs (or "wait_for_build": the loop alone)
    telegram_configured, \* TELEGRAM_BOT_TOKEN and TELEGRAM_CHAT_ID are both set
    pc,             \* position of the main program
    i,              \* index of the `for cube in ...` loops of the fast batch
    fast_build_ids, \* the build_id column of fast_build_ids
    loops,          \* commpeak: loops
    successful_c2_runs, \* commpeak: successful_c2_runs
    last_cube1_status, \* commpeak: last_cube1_status
    wpc,            \* position inside wait_for_build
    clock,          \* time.time(), from an origin set when a wait is entered
    deadline,       \* wait_for_build's local `deadline`
    status,         \* the value wait_for_build returned, until branched on
    lastReq,        \* the latest Sisense request: "login", "trigger", "status"
    lastResp,       \* and the `resp` it got
    \* history of the run, read only by the properties:
    attempts,       \* one record per trigger_build call, in call order
    cur,            \* index in attempts of the build being waited on (0: none)
    gets,           \* status GETs issued by the current wait
    sleeps          \* time.sleep calls made by the current wait

vars == <<script, telegram_configured, pc, i, fast_build_ids, loops,
          successful_c2_runs, last_cube1_status, wpc, clock, deadline,
          status, lastReq, lastResp, attempts, cur, gets, sleeps>>

-----------------------------------------------------------------------------
(* Bounds of the model *)

\* BUILD_TIMEOUT_MINUTES * 60, in ticks
BuildTimeout == 3
\* POLL_INTERVAL_SECONDS, in ticks
PollInterval == 2
\* a status GET takes 0..MaxGetDur ticks
MaxGetDur == 1
\* the loop alone is entered at a time in 0..MaxStart
MaxStart == 1
\* len(FAST_CUBES)
NumFast == 3
\* no wait issues more than MaxPolls status GETs (never reached by the loop
\* as written: see PollCapNotReached)
MaxPolls == 5
\* MAX_LOOPS_PER_RUN, read from the environment
MAX_LOOPS_PER_RUN == 2

-----------------------------------------------------------------------------
(* Python values decoded from a JSON body *)

None == [t |-> "none"]
Str(chars) == [t |-> "str", v |-> chars]
Num(n) == [t |-> "num", v |-> n]
Dict(f) == [t |-> "dict", v |-> f]
List == [t |-> "list"]

\* bool(x)
Truthy(x) ==
    CASE x.t = "none" -> FALSE
      [] x.t = "str" -> x.v # <<>>
      [] x.t = "num" -> x.v # 0
      [] x.t = "dict" -> DOMAIN x.v # {}
      [] x.t = "list" -> FALSE
      [] OTHER -> TRUE

\* data.get(key)
Get(data, key) == IF key \in DOMAIN data.v THEN data.v[key] ELSE None

\* a or b
Or(a, b) == IF Truthy(a) THEN a ELSE b

LowerCase == <<"a","b","c","d","e","f","g","h","i","j","k","l","m",
               "n","o","p","q","r","s","t","u","v","w","x","y","z">>
UpperCase == <<"A","B","C","D","E","F","G","H","I","J","K","L","M",
               "N","O","P","Q","R","S","T","U","V","W","X","Y","Z">>

UpperChar(c) ==
    IF \E k \in 1..26 : LowerCase[k] = c
    THEN UpperCase[CHOOSE k \in 1..26 : LowerCase[k] = c]
    ELSE c

LowerChar(c) ==
    IF \E k \in 1..26 : UpperCase[k] = c
    THEN LowerCase[CHOOSE k \in 1..26 : UpperCase[k] = c]
    ELSE c

\* s.upper(), on a sequence of characters
Upper(chars) == [k \in 1..Len(chars) |-> UpperChar(chars[k])]

Digits == <<"0","1","2","3","4","5","6","7","8","9">>

\* str(x), as a sequence of characters (strings and small numbers)
PyStr(x) ==
    CASE x.t = "str" -> x.v
      [] x.t = "num" -> <<Digits[x.v + 1]>>
      [] x.t = "none" -> <<"N","o","n","e">>
      [] x.t = "list" -> <<"[","]">>
      [] OTHER -> <<"{","}">>

RECURSIVE Join(_)
\* the characters as one string
Join(chars) == IF chars = <<>> THEN "" ELSE Head(chars) \o Join(Tail(chars))

\* needle in hay, both sequences
Contains(needle, hay) ==
    \E k \in 1..(Len(hay) - Len(needle) + 1) :
        SubSeq(hay, k, k + Len(needle) - 1) = needle

-----------------------------------------------------------------------------
(* wait_for_build: vocabulary *)

final_statuses ==
    {"SUCCEEDED", "SUCCESS", "FAILED", "FAILURE", "CANCELLED", "CANCELED",
     "DONE", "COMPLETED", "ERROR", "TIMEOUT"}

SUCCESS_STATUSES == {"SUCCEEDED", "SUCCESS", "DONE", "COMPLETED"}

\* "Data source not found for build id", word by word
DataSourceNotFound ==
    <<"Data", "source", "not", "found", "for", "build", "id">>


-----------------------------------------------------------------------------
(* HTTP responses *)

NotJson == [t |-> "invalid"]
NoResp == [kind |-> "none", code |-> 0, text |-> <<>>, body |-> NotJson]
\* requests raised (connection error, ...)
Raised == [kind |-> "exception", code |-> 0, text |-> <<>>, body |-> NotJson]
Http(code, text, body) ==
    [kind |-> "http", code |-> code, text |-> text, body |-> body]

\* the ten words of final_statuses, letter by letter
Vocabulary ==
    { <<"S","U","C","C","E","E","D","E","D">>, <<"S","U","C","C","E","S","S">>,
      <<"F","A","I","L","E","D">>, <<"F","A","I","L","U","R","E">>,
      <<"C","A","N","C","E","L","L","E","D">>, <<"C","A","N","C","E","L","E","D">>,
      <<"D","O","N","E">>, <<"C","O","M","P","L","E","T","E","D">>,
      <<"E","R","R","O","R">>, <<"T","I","M","E","O","U","T">> }

\* a word in four letter cases: SUCCEEDED, succeeded, Succeeded, sUcCeEdEd
CaseVariants(w) ==
    { w,
      [k \in 1..Len(w) |-> LowerChar(w[k])],
      [k \in 1..Len(w) |-> IF k = 1 THEN w[k] ELSE LowerChar(w[k])],
      [k \in 1..Len(w) |-> IF k % 2 = 1 THEN LowerChar(w[k]) ELSE w[k]] }

\* status strings outside the vocabulary
OtherWords ==
    { <<"b","u","i","l","d","i","n","g">>, <<"R","U","N","N","I","N","G">>,
      <<"U","N","K","N","O","W","N">>, <<"S","U","C","C","E","E","D">>,
      <<"D","O","N","E"," ">>, <<"E","R","R","O","R","_","H","T","T","P">> }

\* values a status/state field may hold
StatusValues ==
    {None, Str(<<>>), Num(0), Num(1)}
        \cup {Str(w) : w \in OtherWords}
        \cup {Str(v) : v \in UNION {CaseVariants(w) : w \in Vocabulary}}

\* bodies of a 2xx status response
StatusBodies ==
    {NotJson, List, None, Dict(<<>>)}
        \cup {Dict([k \in {"status"} |-> s]) : s \in StatusValues}
        \cup {Dict([k \in {"state"} |-> s]) : s \in StatusValues}
        \cup {Dict([k \in {"status", "state"} |->
                      IF k = "status" THEN s[1] ELSE s[2]]) :
                s \in {<<None, Str(<<"d","o","n","e">>)>>,
                       <<Str(<<>>), Str(<<"F","a","i","l","e","d">>)>>,
                       <<Str(<<"r","u","n">>), Str(<<"D","O","N","E">>)>>,
                       <<Str(<<"f","a","i","l","e","d">>), Str(<<"D","O","N","E">>)>>}}

ErrorTexts ==
    { <<>>,
      <<"Error:">> \o DataSourceNotFound \o <<"42">>,
      <<"Data", "source", "not", "found">>,
      <<"Internal", "Server", "Error">> }

\* every status response the loop alone is checked against
PollResponses ==
    {Raised}
        \cup {Http(c, t, NotJson) : c \in {302, 400, 404, 500}, t \in ErrorTexts}
        \cup {Http(c, <<>>, b) : c \in {200, 201}, b \in StatusBodies}

\* the status responses of a whole run: one or two of each class
RunPollResponses ==
    { Raised,
      Http(400, <<"Error:">> \o DataSourceNotFound \o <<"42">>, NotJson),
      Http(404, <<>>, NotJson),
      Http(500, <<"Internal", "Server", "Error">>, NotJson),
      Http(200, <<>>, Dict([k \in {"status"} |-> Str(<<"b","u","i","l","d","i","n","g">>)])),
      Http(200, <<>>, Dict([k \in {"status"} |-> Str(<<"s","u","c","c","e","e","d","e","d">>)])),
      Http(200, <<>>, Dict([k \in {"state"} |-> Str(<<"F","a","i","l","e","d">>)])) }

-----------------------------------------------------------------------------
(* wait_for_build, one pass of the while loop *)

\* (mutant) the text compared with ==, not searched with `in`
Transient400Exact(r) == r.code = 400 /\ r.text = DataSourceNotFound

\* resp.status_code == 400 and "Data source not found for build id" in resp.text
Transient400(r) == r.code = 400 /\ Contains(DataSourceNotFound, r.text)

\* resp.status_code == 404
NotFound404(r) == r.code = 404

\* (mutant) only 4xx and 5xx are errors
HttpErrorFrom400(r) == r.code >= 400

\* resp.status_code >= 300
HttpError(r) == r.code >= 300

\* raw_status = data.get("status") or data.get("state") or "UNKNOWN"
RawStatus(data) ==
    Or(Or(Get(data, "status"), Get(data, "state")),
       Str(<<"U","N","K","N","O","W","N">>))

\* (mutant) .upper() left out
NormalizeNoUpper(raw) == Join(PyStr(raw))

\* status = str(raw_status).upper()
Normalize(raw) == Join(Upper(PyStr(raw)))

\* status in final_statuses
IsFinal(s) == s \in final_statuses

\* the loop goes on to the deadline check
Continue == "<continue>"

\* (mutant) a status outside final_statuses is returned at once
PollOutcomeFailFast(r) ==
    IF r.kind = "exception" THEN "ERROR_EXCEPTION"
    ELSE IF Transient400(r) THEN Continue
    ELSE IF NotFound404(r) THEN Continue
    ELSE IF HttpError(r) THEN "ERROR_HTTP"
    ELSE IF r.body.t # "dict" THEN "ERROR_EXCEPTION"
    ELSE Normalize(RawStatus(r.body))

\* (mutant) an exception inside the try block is swallowed and the poll is
\* made again
PollOutcomeRetryException(r) ==
    IF r.kind = "exception" THEN Continue
    ELSE IF Transient400(r) THEN Continue
    ELSE IF NotFound404(r) THEN Continue
    ELSE IF HttpError(r) THEN "ERROR_HTTP"
    ELSE IF r.body.t # "dict" THEN Continue
    ELSE IF IsFinal(Normalize(RawStatus(r.body)))
         THEN Normalize(RawStatus(r.body))
    ELSE Continue

\* the try block: the value returned, or Continue
PollOutcome(r) ==
    IF r.kind = "exception" THEN "ERROR_EXCEPTION"
    ELSE IF Transient400(r) THEN Continue
    ELSE IF NotFound404(r) THEN Continue
    ELSE IF HttpError(r) THEN "ERROR_HTTP"
    ELSE IF r.body.t # "dict" THEN "ERROR_EXCEPTION"
    ELSE IF IsFinal(Normalize(RawStatus(r.body)))
         THEN Normalize(RawStatus(r.body))
    ELSE Continue

\* (mutant) >= for >
PastDeadlineInclusive(now, dl) == now >= dl

\* (mutant) the deadline is never seen as passed
PastDeadlineNever(now, dl) == now > dl /\ now < dl

\* time.time() > deadline
PastDeadline(now, dl) == now > dl

\* deadline = time.time() + BUILD_TIMEOUT_MINUTES * 60
DeadlineAt(now) == now + BuildTimeout

\* status not in SUCCESS_STATUSES
NotSuccess(s) == s \notin SUCCESS_STATUSES

PollDomain ==
    IF script = "wait_for_build" THEN PollResponses ELSE RunPollResponses

\* `return s`: the build being waited on has its outcome
Returned(s) ==
    /\ wpc' = "returned"
    /\ status' = s
    /\ attempts' = [attempts EXCEPT ![cur].outcomes = @ + 1,
                                    ![cur].ok = ~NotSuccess(s)]

\* (mutant) the deadline is tested on every pass, before the status read by
\* the poll is returned
PollTimeoutWins ==
    /\ wpc = "get"
    /\ gets < MaxPolls
    /\ \E r \in PollDomain, d \in 0..MaxGetDur :
        LET outcome == PollOutcome(r)
        IN  /\ lastReq' = "status"
            /\ lastResp' = r
            /\ gets' = gets + 1
            /\ clock' = clock + d
            /\ IF outcome = Continue
               THEN wpc' = "check" /\ UNCHANGED <<status, attempts>>
               ELSE IF PastDeadline(clock + d, deadline)
               THEN Returned("TIMEOUT")
               ELSE Returned(outcome)
    /\ UNCHANGED <<script, telegram_configured, pc, i, fast_build_ids, loops,
                   successful_c2_runs, last_cube1_status, deadline, cur,
                   sleeps>>

\* requests.get and the branches on its response
Poll ==
    /\ wpc = "get"
    /\ gets < MaxPolls
    /\ \E r \in PollDomain :
        LET outcome == PollOutcome(r)
        IN  /\ lastReq' = "status"
            /\ lastResp' = r
            /\ gets' = gets + 1
            /\ IF outcome = Continue
               THEN wpc' = "check" /\ UNCHANGED <<status, attempts>>
               ELSE Returned(outcome)
            /\ \E d \in 0..MaxGetDur : clock' = clock + d
    /\ UNCHANGED <<script, telegram_configured, pc, i, fast_build_ids, loops,
                   successful_c2_runs, last_cube1_status, deadline, cur,
                   sleeps>>

\* if time.time() > deadline: return "TIMEOUT"
CheckDeadline ==
    /\ wpc = "check"
    /\ IF PastDeadline(clock, deadline)
       THEN Returned("TIMEOUT")
       ELSE wpc' = "sleep" /\ UNCHANGED <<status, attempts>>
    /\ UNCHANGED <<script, telegram_configured, pc, i, fast_build_ids, loops,
                   successful_c2_runs, last_cube1_status, clock, deadline,
                   lastReq, lastResp, cur, gets, sleeps>>

\* time.sleep(POLL_INTERVAL_SECONDS)
Sleep ==
    /\ wpc = "sleep"
    /\ clock' = clock + PollInterval
    /\ sleeps' = sleeps + 1
    /\ wpc' = "get"
    /\ UNCHANGED <<script, telegram_configured, pc, i, fast_build_ids, loops,
                   successful_c2_runs, last_cube1_status, deadline, status,
                   lastReq, lastResp, attempts, cur, gets>>

NoStatus == "<none>"

\* the record of one trigger_build call: its target, whether it returned a
\* build id, whether its POST failed, the wait_for_build calls made on that
\* id and the values they returned, whether the build succeeded, the
\* send_telegram_message calls made about it, and whether one of them did
\* not deliver its message (HTTP error or exception)
Attempt(target, handle, notes) ==
    [target |-> target, handle |-> handle, failed |-> FALSE, waits |-> 0,
     outcomes |-> 0, ok |-> FALSE, notes |-> notes, lost |-> FALSE]

\* the POST failed: transport exception, HTTP status >= 300, or a body that
\* is not JSON
PostFailed(r) == r.kind = "exception" \/ r.code >= 300 \/ r.body.t = "invalid"

\* wait_for_build called once, at a time in 0..MaxStart
InitWait ==
    /\ script = "wait_for_build"
    /\ telegram_configured = FALSE
    /\ pc = "waiting"
    /\ i = 0
    /\ fast_build_ids = <<>>
    /\ loops = 0
    /\ successful_c2_runs = 0
    /\ last_cube1_status = NoStatus
    /\ wpc = "get"
    /\ clock \in 0..MaxStart
    /\ deadline = DeadlineAt(clock)
    /\ status = NoStatus
    /\ lastReq = "none"
    /\ lastResp = NoResp
    /\ attempts = <<[Attempt(<<"cube", 1>>, TRUE, 0) EXCEPT !.waits = 1]>>
    /\ cur = 1
    /\ gets = 0
    /\ sleeps = 0

\* wait_for_build called once with BUILD_TIMEOUT_MINUTES * 60 set to any value
\* in 0..BuildTimeout
InitWaitAnyTimeout ==
    /\ script = "wait_for_build"
    /\ telegram_configured = FALSE
    /\ pc = "waiting"
    /\ i = 0
    /\ fast_build_ids = <<>>
    /\ loops = 0
    /\ successful_c2_runs = 0
    /\ last_cube1_status = NoStatus
    /\ wpc = "get"
    /\ clock \in 0..MaxStart
    /\ \E timeout \in 0..BuildTimeout : deadline = clock + timeout
    /\ status = NoStatus
    /\ lastReq = "none"
    /\ lastResp = NoResp
    /\ attempts = <<[Attempt(<<"cube", 1>>, TRUE, 0) EXCEPT !.waits = 1]>>
    /\ cur = 1
    /\ gets = 0
    /\ sleeps = 0

NextWait == Poll \/ CheckDeadline \/ Sleep

SpecWaitAnyTimeout == InitWaitAnyTimeout /\ [][NextWait]_vars

SpecWait == InitWait /\ [][NextWait]_vars

\* every GET gets its response, and the process keeps running
FairSpecWait == SpecWait /\ WF_vars(NextWait)

-----------------------------------------------------------------------------
(* get_token *)

\* the function raised instead of returning
RaisedOut == [t |-> "raise"]

\* (mutant) resp.raise_for_status() is left out
RaiseForStatusNever(r) == r # r

\* resp.raise_for_status()
RaiseForStatus(r) == r.code >= 400 /\ r.code < 600

\* the token returned, or RaisedOut
GetToken(r) ==
    IF r.kind = "exception" THEN RaisedOut
    ELSE IF RaiseForStatus(r) THEN RaisedOut
    ELSE IF r.body.t # "dict" THEN RaisedOut
    ELSE IF ~Truthy(Or(Or(Get(r.body, "token"), Get(r.body, "access_token")),
                       Get(r.body, "jwt")))
         THEN RaisedOut
    ELSE Or(Or(Get(r.body, "token"), Get(r.body, "access_token")),
            Get(r.body, "jwt"))

Tok == Str(<<"t","o","k">>)

LoginResponses ==
    { Raised,
      Http(401, <<>>, NotJson),
      Http(401, <<>>, Dict([k \in {"token"} |-> Tok])),
      Http(500, <<>>, NotJson),
      Http(302, <<>>, NotJson),
      Http(302, <<>>, Dict([k \in {"token"} |-> Tok])),
      Http(200, <<>>, NotJson),
      Http(200, <<>>, List),
      Http(200, <<>>, Dict(<<>>)),
      Http(200, <<>>, Dict([k \in {"token"} |-> Str(<<>>)])),
      Http(200, <<>>, Dict([k \in {"token"} |-> Num(1)])),
      Http(200, <<>>, Dict([k \in {"token"} |-> Tok])),
      Http(200, <<>>, Dict([k \in {"access_token"} |-> Tok])),
      Http(200, <<>>, Dict([k \in {"jwt"} |-> Tok])) }

-----------------------------------------------------------------------------
(* trigger_build *)

KeyOrder == <<"id", "oid", "_id", "status">>

KeyChars(k) ==
    CASE k = "id" -> <<"i","d">>
      [] k = "oid" -> <<"o","i","d">>
      [] k = "_id" -> <<"_","i","d">>
      [] OTHER -> <<"s","t","a","t","u","s">>

\* repr of a value inside a dict
ReprValue(x) == IF x.t = "str" THEN <<"'">> \o x.v \o <<"'">> ELSE PyStr(x)

RECURSIVE ReprItems(_, _)
ReprItems(data, keys) ==
    IF keys = <<>> THEN <<>>
    ELSE LET k == Head(keys)
             rest == ReprItems(data, Tail(keys))
         IN  IF k \in DOMAIN data.v
             THEN <<"'">> \o KeyChars(k) \o <<"'", ":", " ">>
                    \o ReprValue(data.v[k])
                    \o (IF rest = <<>> THEN <<>> ELSE <<",", " ">> \o rest)
             ELSE rest

\* str(data), data a dict
Repr(data) == <<"{">> \o ReprItems(data, KeyOrder) \o <<"}">>

\* build_id = data.get("id") or data.get("oid") or data.get("_id") or str(data)
BuildId(data) ==
    Or(Or(Or(Get(data, "id"), Get(data, "oid")), Get(data, "_id")),
       Str(Repr(data)))

\* (mutant) no try/except around the POST
TriggerBuildNoTry(r) ==
    IF r.kind = "exception" THEN RaisedOut
    ELSE IF HttpError(r) THEN None
    ELSE IF r.body.t # "dict" THEN RaisedOut
    ELSE BuildId(r.body)

\* the build id returned, None, or RaisedOut (data.get on a body that is no
\* dict, outside the try block)
TriggerBuild(r) ==
    IF r.kind = "exception" THEN None
    ELSE IF HttpError(r) THEN None
    ELSE IF r.body.t = "invalid" THEN None
    ELSE IF r.body.t # "dict" THEN RaisedOut
    ELSE BuildId(r.body)

B1 == Str(<<"b","1">>)

\* the trigger responses of a whole run
RunTriggerResponses ==
    { Raised,
      Http(500, <<"Internal", "Server", "Error">>, NotJson),
      Http(302, <<>>, NotJson),
      Http(200, <<>>, NotJson),
      Http(200, <<>>, List),
      Http(200, <<>>, Dict(<<>>)),
      Http(200, <<>>, Dict([k \in {"id"} |-> B1])),
      Http(200, <<>>, Dict([k \in {"oid"} |-> B1])),
      Http(200, <<>>, Dict([k \in {"id", "_id"} |->
                              IF k = "id" THEN Str(<<>>) ELSE B1])) }

\* (mutant) the test of build_id is missing
NoBuildNever(b) == b # b

\* if not build_id
NoBuild(b) == ~Truthy(b)

(* send_telegram_message *)

\* what the Telegram API answers to sendMessage; Raised stands for any
\* exception of requests.post, the Timeout after timeout=10 among them
TelegramResponses ==
    {Raised, Http(200, <<>>, NotJson), Http(500, <<>>, NotJson)}

\* (mutant) no try/except around the POST to Telegram
SendTelegramMessageNoTry(configured, n) ==
    IF ~configured THEN "printed"
    ELSE IF n.kind = "exception" THEN "raised"
    ELSE IF n.code >= 300 THEN "error"
    ELSE "sent"

\* send_telegram_message(text): what became of the message.  The function
\* returns in every case ("raised" would be an exception leaving it)
SendTelegramMessage(configured, n) ==
    IF ~configured THEN "printed"
    ELSE IF n.kind = "exception" THEN "exception"
    ELSE IF n.code >= 300 THEN "error"
    ELSE "sent"

\* the answers to k messages in a row; no request is made when Telegram is
\* not configured
TelegramAnswers(k) ==
    IF telegram_configured THEN [1..k -> TelegramResponses]
    ELSE {[m \in 1..k |-> NoResp]}

\* what became of the messages answered by ns
Sent(ns) == {SendTelegramMessage(telegram_configured, ns[m]) : m \in DOMAIN ns}

\* one trigger_build call: the POST, the Telegram message trigger_build sends
\* on failure, and the attempt recorded.  ns holds the answers to that message
\* and to the one the caller adds on failure, `waitNow` says that the caller
\* waits at once on success.
Triggered(target, r, ns, waitNow) ==
    /\ lastReq' = "trigger"
    /\ lastResp' = r
    /\ attempts' =
         Append(attempts,
                [(IF TriggerBuild(r) = RaisedOut THEN Attempt(target, FALSE, 0)
                  ELSE IF NoBuild(TriggerBuild(r))
                       THEN [Attempt(target, FALSE, Len(ns))
                               EXCEPT !.lost = Sent(ns) \cap {"error", "exception"} # {}]
                  ELSE [Attempt(target, TRUE, 0)
                          EXCEPT !.waits = IF waitNow THEN 1 ELSE 0])
                   EXCEPT !.failed = PostFailed(r)])

\* the messages a trigger_build call answered r leads to: its own and `more`
\* of the caller when it returns None, none otherwise
TriggerMessages(r, more) ==
    IF TriggerBuild(r) # RaisedOut /\ NoBuild(TriggerBuild(r))
    THEN TelegramAnswers(1 + more)
    ELSE {<<>>}

\* wait_for_build(token, build_id) is entered for attempt k.  The clock is read here for the first time since the last
\* wait: the entry time is an input, and time is counted from an origin at
\* most MaxStart ticks before it.
EnterWait(k) ==
    /\ wpc' = "get"
    /\ \E now \in 0..MaxStart :
        /\ clock' = now
        /\ deadline' = DeadlineAt(now)
    /\ cur' = k
    /\ gets' = 0
    /\ sleeps' = 0

\* trigger_build, then `if not build_id: ... else: wait_for_build(...)`
TriggerThenWait(target, more, waitingPc, failPc) ==
    /\ \E r \in RunTriggerResponses :
        \E ns \in TriggerMessages(r, more) :
        /\ Triggered(target, r, ns, TRUE)
        /\ IF TriggerBuild(r) = RaisedOut
           THEN pc' = "raised"
                /\ UNCHANGED <<wpc, clock, deadline, cur, gets, sleeps>>
           ELSE IF NoBuild(TriggerBuild(r))
           THEN pc' = (IF "raised" \in Sent(ns) THEN "raised" ELSE failPc)
                /\ UNCHANGED <<wpc, clock, deadline, cur, gets, sleeps>>
           ELSE pc' = waitingPc /\ EnterWait(Len(attempts) + 1)
    /\ UNCHANGED <<script, telegram_configured, i, fast_build_ids,
                   successful_c2_runs, status>>

\* (mutant) the caller goes on as after a success whatever the wait returned
WaitReturnedGoOn(waitingPc, okPc, failPc) ==
    /\ pc = waitingPc
    /\ wpc = "returned"
    /\ wpc' = "idle"
    /\ cur' = 0
    /\ \E ns \in TelegramAnswers(IF NotSuccess(status) THEN 1 ELSE 0) :
        /\ attempts' = [attempts EXCEPT
                          ![cur].notes = @ + Len(ns),
                          ![cur].lost = Sent(ns) \cap {"error", "exception"} # {}]
        /\ pc' = IF "raised" \in Sent(ns) THEN "raised" ELSE okPc
    /\ status' = NoStatus
    /\ lastReq' = "none"
    /\ lastResp' = NoResp
    /\ gets' = 0
    /\ sleeps' = 0
    /\ UNCHANGED <<script, telegram_configured, fast_build_ids, loops, clock,
                   deadline>>

\* status = wait_for_build(...); if status not in SUCCESS_STATUSES:
\* send_telegram_message(...).  The locals of wait_for_build are gone, and
\* the returned value is not read again once the caller has branched on it.
WaitReturned(waitingPc, okPc, failPc) ==
    /\ pc = waitingPc
    /\ wpc = "returned"
    /\ wpc' = "idle"
    /\ cur' = 0
    /\ \E ns \in TelegramAnswers(IF NotSuccess(status) THEN 1 ELSE 0) :
        /\ attempts' = [attempts EXCEPT
                          ![cur].notes = @ + Len(ns),
                          ![cur].lost = Sent(ns) \cap {"error", "exception"} # {}]
        /\ pc' = IF "raised" \in Sent(ns) THEN "raised"
                 ELSE IF NotSuccess(status) THEN failPc ELSE okPc
    /\ status' = NoStatus
    /\ lastReq' = "none"
    /\ lastResp' = NoResp
    /\ gets' = 0
    /\ sleeps' = 0
    /\ UNCHANGED <<script, telegram_configured, fast_build_ids, loops, clock,
                   deadline>>

-----------------------------------------------------------------------------
(* the three programs *)

Scripts ==
    {"sisense_build_chain", "commpeak_orchestrator", "sisense_trigger_build"}

\* token[:30] does not raise
Sliceable(x) == x.t \in {"str", "list"}

\* token = get_token(); print("Got token ...", token[:30], "...")
Login ==
    /\ pc = "login"
    /\ \E r \in LoginResponses :
        /\ lastReq' = "login"
        /\ lastResp' = r
        /\ pc' = IF GetToken(r) = RaisedOut \/ ~Sliceable(GetToken(r))
                 THEN "raised"
                 ELSE CASE script = "sisense_build_chain" -> "fast_trigger"
                        [] script = "commpeak_orchestrator" -> "loop"
                        [] OTHER -> "trigger"
    /\ UNCHANGED <<script, telegram_configured, i, fast_build_ids, loops,
                   successful_c2_runs, last_cube1_status, wpc, clock, deadline,
                   status, attempts, cur, gets, sleeps>>

(* sisense_build_chain.py *)

Fast(k) == <<"FAST_CUBES", k>>

\* for cube in FAST_CUBES: build_id = trigger_build(...); append
FastTrigger ==
    /\ pc = "fast_trigger"
    /\ \E r \in RunTriggerResponses :
        \E ns \in TriggerMessages(r, 0) :
        /\ Triggered(Fast(i), r, ns, FALSE)
        /\ IF TriggerBuild(r) = RaisedOut \/ "raised" \in Sent(ns)
           THEN pc' = "raised" /\ UNCHANGED <<i, fast_build_ids>>
           ELSE /\ fast_build_ids' = Append(fast_build_ids, TriggerBuild(r))
                /\ i' = IF i = NumFast THEN 1 ELSE i + 1
                /\ pc' = IF i = NumFast THEN "fast_wait" ELSE "fast_trigger"
    /\ UNCHANGED <<script, telegram_configured, loops, successful_c2_runs,
                   last_cube1_status, wpc, clock, deadline, status, cur, gets,
                   sleeps>>

\* if not build_id: print("Skipping wait ..."); continue
FastSkip ==
    /\ pc = "fast_wait"
    /\ NoBuild(fast_build_ids[i])
    /\ i' = i + 1
    /\ pc' = IF i = NumFast THEN "dwh_trigger" ELSE "fast_wait"
    /\ UNCHANGED <<script, telegram_configured, fast_build_ids, loops,
                   successful_c2_runs, last_cube1_status, wpc, clock, deadline,
                   status, lastReq, lastResp, attempts, cur, gets, sleeps>>

\* status = wait_for_build(token, build_id), entered
FastWait ==
    /\ pc = "fast_wait"
    /\ ~NoBuild(fast_build_ids[i])
    /\ pc' = "fast_waiting"
    /\ EnterWait(i)
    /\ attempts' = [attempts EXCEPT ![i].waits = @ + 1]
    /\ UNCHANGED <<script, telegram_configured, i, fast_build_ids, loops,
                   successful_c2_runs, last_cube1_status, status, lastReq,
                   lastResp>>

\* (mutant) a non-success wait ends the wait phase of the batch
FastWaitedAbort ==
    /\ WaitReturned("fast_waiting",
                    IF i = NumFast THEN "dwh_trigger" ELSE "fast_wait",
                    "dwh_trigger")
    /\ i' = IF NotSuccess(status) THEN NumFast + 1 ELSE i + 1
    /\ UNCHANGED <<successful_c2_runs, last_cube1_status>>

\* the wait returned: message on non-success, next cube of the batch
FastWaited ==
    /\ WaitReturned("fast_waiting",
                    IF i = NumFast THEN "dwh_trigger" ELSE "fast_wait",
                    IF i = NumFast THEN "dwh_trigger" ELSE "fast_wait")
    /\ i' = i + 1
    /\ UNCHANGED <<successful_c2_runs, last_cube1_status>>

Chain(target, triggerPc, waitingPc) ==
    /\ pc = triggerPc
    /\ TriggerThenWait(target, 1, waitingPc, "done")
    /\ UNCHANGED <<loops, last_cube1_status>>

DwhTrigger == Chain(<<"BIG_CUBES", 1>>, "dwh_trigger", "dwh_waiting")

DwhWaited ==
    /\ WaitReturned("dwh_waiting", "mod_trigger", "done")
    /\ UNCHANGED <<i, successful_c2_runs, last_cube1_status>>

ModTrigger == Chain(<<"BIG_CUBES", 2>>, "mod_trigger", "mod_waiting")

ModWaited ==
    /\ WaitReturned("mod_waiting", "final_trigger", "done")
    /\ UNCHANGED <<i, successful_c2_runs, last_cube1_status>>

FinalTrigger == Chain(<<"FINAL_CUBE", 1>>, "final_trigger", "final_waiting")

FinalWaited ==
    /\ WaitReturned("final_waiting", "done", "done")
    /\ UNCHANGED <<i, successful_c2_runs, last_cube1_status>>

(* commpeak_orchestrator.py *)

\* (mutant) <= for <
LoopConditionInclusive(n) == n <= MAX_LOOPS_PER_RUN

\* loops < MAX_LOOPS_PER_RUN
LoopCondition(n) == n < MAX_LOOPS_PER_RUN

\* while loops < MAX_LOOPS_PER_RUN: loops += 1; build1_id = trigger_build(CUBE1);
\* if not build1_id: last_cube1_status = "TRIGGER_FAILED"; break
Cube1Trigger ==
    /\ pc = "loop"
    /\ LoopCondition(loops)
    /\ loops' = loops + 1
    /\ TriggerThenWait(<<"CUBE1", 1>>, 0, "cube1_waiting", "cube3_trigger")
    /\ last_cube1_status' =
         IF TriggerBuild(lastResp') # RaisedOut /\ NoBuild(TriggerBuild(lastResp'))
         THEN "TRIGGER_FAILED"
         ELSE last_cube1_status

\* the while condition is false
LoopExit ==
    /\ pc = "loop"
    /\ ~LoopCondition(loops)
    /\ pc' = "cube3_trigger"
    /\ UNCHANGED <<script, telegram_configured, i, fast_build_ids, loops,
                   successful_c2_runs, last_cube1_status, wpc, clock, deadline,
                   status, lastReq, lastResp, attempts, cur, gets, sleeps>>

\* last_cube1_status = status1; break on a non-success status
Cube1Waited ==
    /\ WaitReturned("cube1_waiting", "cube2_trigger", "cube3_trigger")
    /\ last_cube1_status' = status
    /\ UNCHANGED <<i, successful_c2_runs>>

\* (mutant) a failed trigger of CUBE2 does not break: the loop goes on
Cube2TriggerRetry ==
    /\ pc = "cube2_trigger"
    /\ TriggerThenWait(<<"CUBE2", 1>>, 0, "cube2_waiting", "loop")
    /\ UNCHANGED <<loops, last_cube1_status>>

\* build2_id = trigger_build(CUBE2); if not build2_id: break
Cube2Trigger ==
    /\ pc = "cube2_trigger"
    /\ TriggerThenWait(<<"CUBE2", 1>>, 0, "cube2_waiting", "cube3_trigger")
    /\ UNCHANGED <<loops, last_cube1_status>>

\* (mutant) every iteration that reached the end of CUBE2's wait is counted
Cube2WaitedCountsAll ==
    /\ WaitReturned("cube2_waiting", "loop", "cube3_trigger")
    /\ successful_c2_runs' = successful_c2_runs + 1
    /\ UNCHANGED <<i, last_cube1_status>>

\* success: successful_c2_runs += 1 and the loop goes on
Cube2Waited ==
    /\ WaitReturned("cube2_waiting", "loop", "cube3_trigger")
    /\ successful_c2_runs' =
         IF NotSuccess(status) THEN successful_c2_runs
         ELSE successful_c2_runs + 1
    /\ UNCHANGED <<i, last_cube1_status>>

Cube3Trigger ==
    /\ pc = "cube3_trigger"
    /\ TriggerThenWait(<<"CUBE3", 1>>, 1, "cube3_waiting", "cube4_trigger")
    /\ UNCHANGED <<loops, last_cube1_status>>

Cube3Waited ==
    /\ WaitReturned("cube3_waiting", "cube4_trigger", "cube4_trigger")
    /\ UNCHANGED <<i, successful_c2_runs, last_cube1_status>>

Cube4Trigger ==
    /\ pc = "cube4_trigger"
    /\ TriggerThenWait(<<"CUBE4", 1>>, 1, "cube4_waiting", "done")
    /\ UNCHANGED <<loops, last_cube1_status>>

Cube4Waited ==
    /\ WaitReturned("cube4_waiting", "done", "done")
    /\ UNCHANGED <<i, successful_c2_runs, last_cube1_status>>

(* sisense_trigger_build.py *)

\* requests.post(...); resp.raise_for_status(): no try, nothing returned
SimpleTrigger ==
    /\ pc = "trigger"
    /\ \E r \in RunTriggerResponses :
        /\ lastReq' = "trigger"
        /\ lastResp' = r
        /\ attempts' = Append(attempts,
                              [Attempt(<<"DATAMODEL_ID", 1>>, FALSE, 0)
                                 EXCEPT !.failed = PostFailed(r)])
        /\ pc' = IF r.kind = "exception" \/ RaiseForStatus(r)
                 THEN "raised" ELSE "done"
    /\ UNCHANGED <<script, telegram_configured, i, fast_build_ids, loops,
                   successful_c2_runs, last_cube1_status, wpc, clock, deadline,
                   status, cur, gets, sleeps>>

-----------------------------------------------------------------------------

\* a run of one of the programs with Telegram not configured:
\* send_telegram_message prints the text and makes no request
Init ==
    /\ script \in Scripts
    /\ telegram_configured = FALSE
    /\ pc = "login"
    /\ i = 1
    /\ fast_build_ids = <<>>
    /\ loops = 0
    /\ successful_c2_runs = 0
    /\ last_cube1_status = NoStatus
    /\ wpc = "idle"
    /\ clock = 0
    /\ deadline = 0
    /\ status = NoStatus
    /\ lastReq = "none"
    /\ lastResp = NoResp
    /\ attempts = <<>>
    /\ cur = 0
    /\ gets = 0
    /\ sleeps = 0

Next ==
    \/ Login
    \/ FastTrigger \/ FastSkip \/ FastWait \/ FastWaited
    \/ DwhTrigger \/ DwhWaited \/ ModTrigger \/ ModWaited
    \/ FinalTrigger \/ FinalWaited
    \/ Cube1Trigger \/ LoopExit \/ Cube1Waited \/ Cube2Trigger \/ Cube2Waited
    \/ Cube3Trigger \/ Cube3Waited \/ Cube4Trigger \/ Cube4Waited
    \/ SimpleTrigger
    \/ Poll \/ CheckDeadline \/ Sleep

Spec == Init /\ [][Next]_vars

\* a run of one of the programs, with Telegram configured or not
InitNotify ==
    /\ script \in Scripts
    /\ telegram_configured \in BOOLEAN
    /\ pc = "login"
    /\ i = 1
    /\ fast_build_ids = <<>>
    /\ loops = 0
    /\ successful_c2_runs = 0
    /\ last_cube1_status = NoStatus
    /\ wpc = "idle"
    /\ clock = 0
    /\ deadline = 0
    /\ status = NoStatus
    /\ lastReq = "none"
    /\ lastResp = NoResp
    /\ attempts = <<>>
    /\ cur = 0
    /\ gets = 0
    /\ sleeps = 0

\* the runs in which sending a Telegram message may fail
SpecNotify == InitNotify /\ [][Next]_vars

(* requests that get no response *)

\* the timeout= argument of each requests call: only the Telegram POST has
\* one (timeout=10); the login POST, the trigger POST and the status GET have
\* none, and requests then waits for the response without a bound
RequestTimeout(req) ==
    CASE req = "notification" -> Num(10)
      [] req = "login" -> None
      [] req = "trigger" -> None
      [] req = "status" -> None

\* the positions of the main programs where trigger_build is called next
TriggerPcs ==
    {"fast_trigger", "dwh_trigger", "mod_trigger", "final_trigger",
     "cube2_trigger", "cube3_trigger", "cube4_trigger", "trigger"}

\* the Sisense request the program sends next, "none" when it has ended or
\* its next step sends none
NextRequest ==
    IF pc = "login" THEN "login"
    ELSE IF wpc = "get" /\ gets < MaxPolls THEN "status"
    ELSE IF wpc = "idle" /\ (pc \in TriggerPcs \/ (pc = "loop" /\ LoopCondition(loops)))
    THEN "trigger"
    ELSE "none"

\* the request is sent and the server never answers it.  With timeout= the
\* call raises requests.Timeout, which is the response Raised of the actions
\* above; without it the call never returns and the program stays inside it
Unanswered ==
    /\ NextRequest # "none"
    /\ RequestTimeout(NextRequest) = None
    /\ lastReq' = NextRequest
    /\ lastResp' = NoResp
    /\ pc' = "blocked"
    /\ wpc' = IF wpc = "get" THEN "blocked" ELSE wpc
    /\ UNCHANGED <<script, telegram_configured, i, fast_build_ids, loops,
                   successful_c2_runs, last_cube1_status, clock, deadline,
                   status, attempts, cur, gets, sleeps>>

NextNet == Next \/ Unanswered

\* the runs in which the server may leave a request unanswered
SpecNet == Init /\ [][NextNet]_vars

-----------------------------------------------------------------------------
(* Properties.  The classes of responses are restated here from the          *)
(* specification's words, apart from the operators of the loop.              *)

\* the polling loop never reaches its cap of MaxPolls GETs
PollCapNotReached == wpc = "get" => gets < MaxPolls

Alive == wpc \in {"get", "check", "sleep"}

\* HTTP 400 with "Data source not found for build id" in the body, or HTTP 404
TransientResponse(r) ==
    /\ r.kind = "http"
    /\ \/ r.code = 404
       \/ r.code = 400 /\ Contains(DataSourceNotFound, r.text)

\* any other HTTP status >= 300
ErrorResponse(r) ==
    r.kind = "http" /\ r.code >= 300 /\ ~TransientResponse(r)

\* chars spells the word w in some letter case
CaseMatch(chars, w) ==
    /\ Len(chars) = Len(w)
    /\ \A k \in 1..Len(w) : chars[k] \in {w[k], LowerChar(w[k])}

\* the status a 2xx body reports: its status field, else its state field
Reported(body) ==
    IF Truthy(Get(body, "status")) THEN Get(body, "status")
    ELSE Get(body, "state")

\* a 2xx response with a JSON object body
StatusReport(r) == r.kind = "http" /\ r.code < 300 /\ r.body.t = "dict"

\* a 2xx response reporting the word w of the vocabulary, in any letter case
Reports(r, w) ==
    /\ StatusReport(r)
    /\ Reported(r.body).t = "str"
    /\ CaseMatch(Reported(r.body).v, w)

\* a 2xx response reporting no word of the vocabulary
NonTerminalReport(r) ==
    StatusReport(r) /\ \A w \in Vocabulary : ~Reports(r, w)

\* the wait is still going on for the build, which has no outcome yet
StillWaiting == Alive /\ cur > 0 /\ attempts[cur].outcomes = 0

\* the wait ended on the deadline check
EndedByDeadline ==
    wpc = "returned" /\ status = "TIMEOUT" /\ clock > deadline

\* C1: a status poll answered HTTP 400 "Data source not found for build id"
\* or HTTP 404 does not end the wait: while it is the latest response, the
\* waiter is still in the loop for the same build, unless the deadline check
\* that follows the poll ended the wait with TIMEOUT.
C1_TransientPollContinues ==
    (lastReq = "status" /\ TransientResponse(lastResp))
        => (StillWaiting \/ EndedByDeadline)

\* C1 witness: after a transient 400 the waiter is about to poll again
C1_Witness ==
    /\ wpc = "get"
    /\ gets = 1
    /\ lastResp.code = 400
    /\ TransientResponse(lastResp)

\* C2: after a non-terminal poll the deadline check returns TIMEOUT exactly
\* when the clock is past the deadline fixed at entry (entry time + timeout),
\* with no further GET and no further sleep for that build; otherwise the
\* waiter sleeps exactly one poll interval and polls again.
C2_Step ==
    /\ (wpc = "check" /\ clock > deadline)
         => /\ wpc' = "returned"
            /\ status' = "TIMEOUT"
            /\ gets' = gets /\ sleeps' = sleeps /\ clock' = clock
    /\ (wpc = "check" /\ ~(clock > deadline))
         => /\ wpc' = "sleep"
            /\ gets' = gets /\ sleeps' = sleeps /\ clock' = clock
    /\ wpc = "sleep"
         => /\ wpc' = "get"
            /\ clock' = clock + PollInterval
            /\ sleeps' = sleeps + 1 /\ gets' = gets /\ cur' = cur
    /\ (gets' = gets + 1 \/ sleeps' = sleeps + 1)
         => cur > 0 /\ cur' = cur /\ attempts[cur].outcomes = 0
    /\ (~Alive /\ wpc' = "get") => deadline' = clock' + BuildTimeout
    /\ Alive => deadline' = deadline

C2_DeadlineCheck == [][C2_Step]_vars

\* C2 witness: a wait returned TIMEOUT after a 404 and at least one sleep
C2_Witness ==
    /\ EndedByDeadline
    /\ lastResp.code = 404
    /\ sleeps >= 1

\* C3: a status poll answered with an HTTP status >= 300 that is neither 404
\* nor the transient 400 ends the wait at once with ERROR_HTTP: the build has
\* its outcome and no further GET or sleep can follow.
C3_HttpErrorEndsWait ==
    (lastReq = "status" /\ ErrorResponse(lastResp))
        => /\ wpc = "returned"
           /\ status = "ERROR_HTTP"
           /\ attempts[cur].outcomes = 1
           /\ ~ENABLED Poll /\ ~ENABLED Sleep

\* C3 witness: a 400 without the transient text, after an earlier poll
C3_Witness ==
    /\ wpc = "returned"
    /\ status = "ERROR_HTTP"
    /\ lastResp.code = 400
    /\ gets = 2

\* C4: a 2xx poll reporting a word of the vocabulary, in any letter case, ends
\* the wait at once with the upper-cased word, and the build counts as
\* succeeded exactly when the word is SUCCEEDED, SUCCESS, DONE or COMPLETED.
C4_TerminalStatusClassified ==
    \A w \in Vocabulary :
        (lastReq = "status" /\ Reports(lastResp, w))
            => /\ wpc = "returned"
               /\ status = Join(w)
               /\ attempts[cur].outcomes = 1
               /\ attempts[cur].ok =
                    (Join(w) \in {"SUCCEEDED", "SUCCESS", "DONE", "COMPLETED"})

\* C4 witness: "Succeeded" in the state field was returned as SUCCEEDED
C4_Witness ==
    /\ wpc = "returned"
    /\ status = "SUCCEEDED"
    /\ attempts[cur].ok
    /\ lastResp.body =
         Dict([k \in {"state"} |-> Str(<<"S","u","c","c","e","e","d","e","d">>)])

\* C5: a 2xx poll whose body is a JSON object reporting no word of the
\* vocabulary (or no status at all) does not end the wait: while it is the
\* latest response, the waiter is still in the loop, unless the deadline
\* check ended the wait with TIMEOUT.
C5_UnknownStatusContinues ==
    (lastReq = "status" /\ NonTerminalReport(lastResp))
        => (StillWaiting \/ EndedByDeadline)

\* C5 witness: after a body with neither status nor state the waiter is about
\* to poll again
C5_Witness ==
    /\ wpc = "get"
    /\ gets = 1
    /\ lastResp.code = 200
    /\ lastResp.body = Dict(<<>>)

\* C6: when every GET is answered, the wait eventually returns, and the build
\* then has exactly one outcome for ever.
C6_WaitTerminates == <>[](wpc = "returned" /\ attempts[cur].outcomes = 1)

\* C6 witness: three polls all reporting "building", then TIMEOUT
C6_Witness ==
    /\ EndedByDeadline
    /\ gets = 3
    /\ StatusReport(lastResp)
    /\ Reported(lastResp.body) = Str(<<"b","u","i","l","d","i","n","g">>)

\* a step that issued a trigger POST
TriggerStep == Len(attempts') = Len(attempts) + 1

\* the trigger got an HTTP client/server error status or a transport exception
TriggerError(r) == r.kind = "exception" \/ (r.kind = "http" /\ r.code >= 400)

Orchestrators == {"sisense_build_chain", "commpeak_orchestrator"}

\* where the plan goes on after a failed trigger of the target
AfterFailedTrigger(target) ==
    CASE target[1] = "FAST_CUBES" ->
           IF target[2] = NumFast THEN "fast_wait" ELSE "fast_trigger"
      [] target[1] \in {"BIG_CUBES", "FINAL_CUBE", "CUBE4"} -> "done"
      [] target[1] \in {"CUBE1", "CUBE2"} -> "cube3_trigger"
      [] OTHER -> "cube4_trigger"

C7_Step ==
    (TriggerStep /\ TriggerError(lastResp'))
        => IF script \in Orchestrators
           THEN /\ pc' = AfterFailedTrigger(attempts'[Len(attempts')].target)
                /\ ~attempts'[Len(attempts')].handle
                /\ attempts'[Len(attempts')].waits = 0
                /\ attempts'[Len(attempts')].notes >= 1
                /\ wpc' = "idle"
           ELSE pc' = "raised"

C8_FailedTriggerNeverPolled ==
    /\ \A k \in DOMAIN attempts :
         attempts[k].failed
            => /\ ~attempts[k].handle
               /\ attempts[k].waits = 0
               /\ attempts[k].outcomes = 0
               /\ cur # k
               /\ script \in Orchestrators => attempts[k].notes >= 1
    /\ wpc # "idle" => cur > 0 /\ ~attempts[cur].failed

\* C8 witness: the run is over, the first trigger had failed and was never
\* waited on, the second build was waited on
C8_Witness ==
    /\ pc = "done"
    /\ Len(attempts) >= 3
    /\ attempts[1].failed
    /\ attempts[1].waits = 0
    /\ attempts[2].outcomes = 1

\* the run is over: the plan is completed or an exception ended the program
Over == pc \in {"done", "raised"}

\* C9: every handle a trigger returned is waited on at most once and, when the
\* run is over, has yielded exactly one outcome.
C9_OneOutcomePerHandle ==
    /\ \A k \in DOMAIN attempts :
         attempts[k].waits <= 1 /\ attempts[k].outcomes <= attempts[k].waits
    /\ Over => \A k \in DOMAIN attempts :
                 attempts[k].handle
                    => attempts[k].waits = 1 /\ attempts[k].outcomes = 1

\* C9 without the runs that an exception ended
C9_OneOutcomeWhenCompleted ==
    /\ \A k \in DOMAIN attempts :
         attempts[k].waits <= 1 /\ attempts[k].outcomes <= attempts[k].waits
    /\ pc = "done" => \A k \in DOMAIN attempts :
                        attempts[k].handle
                           => attempts[k].waits = 1 /\ attempts[k].outcomes = 1

\* the cubes of the parallel batch whose trigger POST was issued
FastTriggered ==
    {k \in 1..NumFast : \E a \in DOMAIN attempts : attempts[a].target = Fast(k)}

\* C10: in the parallel batch no status GET is issued before every cube of
\* the batch was triggered, and once the first cube was triggered every cube
\* of the batch gets triggered whatever the others' triggers brought.
C10_AllTriggeredBeforeFirstGet ==
    script = "sisense_build_chain"
        => /\ (wpc # "idle" \/ lastReq = "status") => FastTriggered = 1..NumFast
           /\ (FastTriggered # {} /\ pc # "fast_trigger")
                => FastTriggered = 1..NumFast

\* C10 without the runs that an exception ended
C10_AllTriggeredUnlessRaised ==
    script = "sisense_build_chain"
        => /\ (wpc # "idle" \/ lastReq = "status") => FastTriggered = 1..NumFast
           /\ (FastTriggered # {} /\ pc \notin {"fast_trigger", "raised"})
                => FastTriggered = 1..NumFast

\* the wait phase of the parallel batch has begun: every trigger_build call of
\* the batch returned
FastWaitPhase ==
    /\ script = "sisense_build_chain"
    /\ \/ pc \in {"fast_wait", "fast_waiting"}
       \/ i = NumFast + 1

\* the run has left the parallel batch, by going on or by an exception
FastBatchLeft ==
    /\ script = "sisense_build_chain"
    /\ pc \notin {"login", "fast_trigger", "fast_wait", "fast_waiting"}
    /\ attempts # <<>>

\* the attempts of the parallel batch
FastAttempts == {a \in DOMAIN attempts : attempts[a].target[1] = "FAST_CUBES"}

\* C11: once the run has left a parallel batch in which the trigger of some
\* cube failed, that cube was never waited on (no GET) and every other cube of
\* the batch that got a handle was waited on once and has its outcome; the
\* waits are made one at a time and in trigger order.
C11_FailedTriggerSkippedOthersWaited ==
    /\ (FastBatchLeft /\ \E f \in FastAttempts : attempts[f].failed)
         => \A a \in FastAttempts :
              /\ attempts[a].failed => attempts[a].waits = 0
              /\ attempts[a].handle
                   => attempts[a].waits = 1 /\ attempts[a].outcomes = 1
    /\ \A a, b \in FastAttempts :
         (a < b /\ attempts[b].waits > 0)
            => attempts[a].waits = (IF attempts[a].handle THEN 1 ELSE 0)
               /\ attempts[a].outcomes = attempts[a].waits

\* C11 within the wait phase: the cubes are taken in
\* trigger order, one at a time: a cube whose trigger returned no handle is
\* skipped (no wait, no GET, no outcome), every cube before the current one
\* that has a handle was waited on once and has its outcome, whatever the
\* outcomes of the waits before it, and no cube after the current one is
\* being waited on.  The chain starts when the phase is over.
C11_BatchWaitsEachInOrder ==
    /\ FastWaitPhase =>
         /\ Len(attempts) >= NumFast
         /\ \A k \in 1..NumFast :
              /\ attempts[k].target = Fast(k)
              /\ ~attempts[k].handle
                   => /\ attempts[k].waits = 0
                      /\ attempts[k].outcomes = 0
                      /\ cur # k
              /\ (attempts[k].handle /\ k < i)
                   => attempts[k].waits = 1 /\ attempts[k].outcomes = 1
              /\ k > i => attempts[k].waits = 0 /\ cur # k
              /\ (attempts[k].handle /\ k = i)
                   => IF pc = "fast_waiting"
                      THEN attempts[k].waits = 1 /\ cur = k
                      ELSE attempts[k].waits = 0
    /\ (script = "sisense_build_chain"
          /\ pc \notin {"login", "fast_trigger", "fast_wait", "fast_waiting",
                        "raised"})
         => i = NumFast + 1

\* the wait phase is over; the first cube's wait returned a
\* non-success status, the second cube's trigger had failed and it was
\* skipped, the third cube was waited on
C11_WaitPhaseReached ==
    /\ script = "sisense_build_chain"
    /\ i = NumFast + 1
    /\ attempts[1].handle /\ attempts[1].outcomes = 1 /\ ~attempts[1].ok
    /\ attempts[2].failed /\ attempts[2].waits = 0
    /\ attempts[3].handle /\ attempts[3].outcomes = 1

\* the targets of the short-circuit chains, each with the target that has to
\* have succeeded just before it (<<>>: none)
ChainPredecessor(target) ==
    CASE target = <<"BIG_CUBES", 2>> -> <<"BIG_CUBES", 1>>
      [] target = <<"FINAL_CUBE", 1>> -> <<"BIG_CUBES", 2>>
      [] target = <<"CUBE2", 1>> -> <<"CUBE1", 1>>
      [] OTHER -> <<>>

ChainTargets ==
    {<<"BIG_CUBES", 1>>, <<"BIG_CUBES", 2>>, <<"FINAL_CUBE", 1>>,
     <<"CUBE1", 1>>, <<"CUBE2", 1>>}

\* the build of attempt a ended Succeeded
Succeeded(a) ==
    attempts[a].handle /\ attempts[a].outcomes = 1 /\ attempts[a].ok

\* attempt a ended with a non-success outcome the caller has seen: no handle
\* from a trigger_build call that returned, or a wait that returned a status
\* outside SUCCESS_STATUSES
NonSuccess(a) ==
    \/ ~attempts[a].handle /\ ~(pc = "raised" /\ a = Len(attempts))
    \/ attempts[a].outcomes = 1 /\ ~attempts[a].ok /\ cur # a

\* C12: in a short-circuit chain a target is triggered only just after the
\* wait of the target before it returned a Succeeded outcome (and nothing is
\* triggered while a wait is going on); after a non-success outcome of a chain
\* target no target of the chain is triggered any more, and the stop has been
\* reported on Telegram.
C12_ChainShortCircuit ==
    \A a \in DOMAIN attempts :
        /\ ChainPredecessor(attempts[a].target) # <<>>
             => /\ a > 1
                /\ attempts[a - 1].target = ChainPredecessor(attempts[a].target)
                /\ Succeeded(a - 1)
        /\ (attempts[a].target = <<"CUBE1", 1>> /\ a > 1)
             => attempts[a - 1].target = <<"CUBE2", 1>> /\ Succeeded(a - 1)
        /\ (attempts[a].target \in ChainTargets /\ NonSuccess(a))
             => /\ attempts[a].notes >= 1
                /\ \A b \in DOMAIN attempts :
                     b > a => attempts[b].target \notin ChainTargets
        /\ (a < Len(attempts) /\ attempts[a].handle)
             => attempts[a].outcomes = 1 \/ attempts[a].target[1] = "FAST_CUBES"

\* C12 witness: the first big cube succeeded, the second ended non-success and
\* the run is over without the final cube
C12_Witness ==
    /\ script = "sisense_build_chain"
    /\ pc = "done"
    /\ Len(attempts) = NumFast + 2
    /\ Succeeded(NumFast + 1)
    /\ attempts[NumFast + 2].outcomes = 1
    /\ ~attempts[NumFast + 2].ok
    /\ attempts[NumFast + 2].notes >= 1

\* the wait of attempt a returned a failure status and the caller has seen it
WaitFailed(a) ==
    attempts[a].outcomes = 1 /\ ~attempts[a].ok /\ cur # a

\* how many times the target was triggered
TimesTriggered(target) ==
    Cardinality({a \in DOMAIN attempts : attempts[a].target = target})

\* the finalization targets, which follow the loop of commpeak_orchestrator.py
\* (in sisense_build_chain.py the final cube is the last link of the chain)
FinalizationTargets == {<<"CUBE3", 1>>, <<"CUBE4", 1>>}

\* C13: once the build of a chain target has ended with a failure status
\* (FAILED among them), no target of that chain is triggered any more; and
\* when the first target of the loop chain of commpeak_orchestrator.py ended
\* FAILED, every finalization target has been triggered, once, by the time
\* the run is over.
C13_FailedChainStillFinalizes ==
    /\ \A a \in DOMAIN attempts :
         (attempts[a].target \in ChainTargets /\ WaitFailed(a))
            => \A b \in DOMAIN attempts :
                 b > a => attempts[b].target \notin ChainTargets
    /\ (script = "commpeak_orchestrator" /\ last_cube1_status = "FAILED" /\ Over)
         => \A f \in FinalizationTargets : TimesTriggered(f) = 1

\* C13 in the runs that no exception ended
C13_FailedChainStillFinalizesWhenCompleted ==
    /\ \A a \in DOMAIN attempts :
         (attempts[a].target \in ChainTargets /\ WaitFailed(a))
            => \A b \in DOMAIN attempts :
                 b > a => attempts[b].target \notin ChainTargets
    /\ (script = "commpeak_orchestrator" /\ last_cube1_status = "FAILED"
          /\ pc = "done")
         => \A f \in FinalizationTargets : TimesTriggered(f) = 1

LoopTargets == {<<"CUBE1", 1>>, <<"CUBE2", 1>>}

\* C14: the loop of commpeak_orchestrator.py starts at most MAX_LOOPS_PER_RUN
\* iterations, each with one trigger of CUBE1 and at most one of CUBE2, and
\* after the first non-success outcome of either (a failed trigger included)
\* neither of them is triggered again.
C14_LoopBoundedAndStopsOnNonSuccess ==
    script = "commpeak_orchestrator"
        => /\ loops <= MAX_LOOPS_PER_RUN
           /\ TimesTriggered(<<"CUBE1", 1>>) = loops
           /\ TimesTriggered(<<"CUBE2", 1>>) <= loops
           /\ TimesTriggered(<<"CUBE2", 1>>) >= loops - 1
           /\ \A a \in DOMAIN attempts :
                (attempts[a].target \in LoopTargets /\ NonSuccess(a))
                    => \A b \in DOMAIN attempts :
                         b > a => attempts[b].target \notin LoopTargets

\* C14 witness: the run is over after MAX_LOOPS_PER_RUN iterations, the last
\* of which ended with a non-success outcome of CUBE2
C14_Witness ==
    /\ script = "commpeak_orchestrator"
    /\ pc = "done"
    /\ loops = MAX_LOOPS_PER_RUN
    /\ TimesTriggered(<<"CUBE2", 1>>) = MAX_LOOPS_PER_RUN
    /\ successful_c2_runs = MAX_LOOPS_PER_RUN - 1

\* the loop has exited and the finalization has begun
FinalizationBegun == TimesTriggered(<<"CUBE3", 1>>) >= 1

\* C15: each finalization target is triggered at most once, CUBE3 first; and
\* once the loop has exited, however it ended, both have been triggered by
\* the time the run is over, the second whatever the first brought.
C15_FinalizationAlwaysTriggeredOnce ==
    script = "commpeak_orchestrator"
        => /\ \A f \in FinalizationTargets : TimesTriggered(f) <= 1
           /\ TimesTriggered(<<"CUBE4", 1>>) <= TimesTriggered(<<"CUBE3", 1>>)
           /\ pc = "done" => FinalizationBegun
           /\ (Over /\ FinalizationBegun)
                => \A f \in FinalizationTargets : TimesTriggered(f) = 1

\* C15 in the runs that no exception ended
C15_FinalizationTriggeredOnceWhenCompleted ==
    script = "commpeak_orchestrator"
        => /\ \A f \in FinalizationTargets : TimesTriggered(f) <= 1
           /\ TimesTriggered(<<"CUBE4", 1>>) <= TimesTriggered(<<"CUBE3", 1>>)
           /\ pc = "done"
                => \A f \in FinalizationTargets : TimesTriggered(f) = 1

\* the loop was exhausted, the first finalization build failed, and the
\* second finalization target was triggered all the same
C15_ExhaustedLoopFinalized ==
    /\ script = "commpeak_orchestrator"
    /\ pc = "done"
    /\ successful_c2_runs = MAX_LOOPS_PER_RUN
    /\ \E a \in DOMAIN attempts :
         attempts[a].target = <<"CUBE3", 1>> /\ WaitFailed(a)
    /\ TimesTriggered(<<"CUBE4", 1>>) = 1

\* the iterations of the loop in which CUBE1 and then CUBE2 ended Succeeded
\* and the program has gone on past CUBE2's wait
FullySucceededIterations ==
    {a \in DOMAIN attempts :
        /\ attempts[a].target = <<"CUBE2", 1>>
        /\ Succeeded(a)
        /\ cur # a
        /\ a > 1
        /\ attempts[a - 1].target = <<"CUBE1", 1>>
        /\ Succeeded(a - 1)}

\* C16: successful_c2_runs, the count reported at the end of the run, is the
\* number of iterations in which both CUBE1 and CUBE2 ended Succeeded; it
\* exceeds neither the iterations started nor MAX_LOOPS_PER_RUN, and it is 0
\* when no build of CUBE2 succeeded.
C16_AccumulationCount ==
    script = "commpeak_orchestrator"
        => /\ successful_c2_runs = Cardinality(FullySucceededIterations)
           /\ successful_c2_runs <= loops
           /\ successful_c2_runs <= MAX_LOOPS_PER_RUN
           /\ (\A a \in DOMAIN attempts :
                 attempts[a].target = <<"CUBE2", 1>> => ~attempts[a].ok)
                => successful_c2_runs = 0

\* C16 witness: the run is over; the first iteration succeeded at both steps,
\* CUBE1 reported FAILED in the second, and the count is 1
C16_Witness ==
    /\ script = "commpeak_orchestrator"
    /\ pc = "done"
    /\ loops = 2
    /\ last_cube1_status = "FAILED"
    /\ successful_c2_runs = 1

\* the body holds no non-empty token, access_token or jwt field
NoTokenField(r) ==
    \/ r.body.t # "dict"
    \/ \A f \in {"token", "access_token", "jwt"} :
         f \in DOMAIN r.body.v => ~Truthy(r.body.v[f])

\* the login got no success response: a transport exception or a status
\* outside 2xx
NonSuccessResponse(r) == r.kind = "exception" \/ r.code < 200 \/ r.code >= 300

\* the login got a transport exception or a client or server error status
ErrorStatusResponse(r) == r.kind = "exception" \/ r.code >= 400

\* C17 as stated: after a login that got a non-success response, or a body
\* with none of the token fields, the run has aborted with an exception: no
\* trigger POST and no status GET was issued, and nothing more happens.
C17_NonSuccessLoginIsFatal ==
    (lastReq = "login" /\ (NonSuccessResponse(lastResp) \/ NoTokenField(lastResp)))
        => /\ pc = "raised"
           /\ attempts = <<>>
           /\ wpc = "idle" /\ gets = 0 /\ cur = 0
           /\ ~ENABLED Next

\* C17 amended: after a login that got a transport exception, a 4xx or 5xx
\* status, or a body with no non-empty token field, the run has aborted with
\* an exception: no trigger POST and no status GET was issued, and nothing
\* more happens (the login is not retried); a run aborts before its first
\* trigger for no other reason, but for a token that is no string.  A login
\* is only ever made as the first request.
C17_FailedLoginIsFatal ==
    /\ (lastReq = "login"
          /\ (ErrorStatusResponse(lastResp) \/ NoTokenField(lastResp)))
         => /\ pc = "raised"
            /\ attempts = <<>>
            /\ wpc = "idle" /\ gets = 0 /\ cur = 0
            /\ ~ENABLED Next
    /\ pc = "login" => lastReq = "none" /\ attempts = <<>>
    /\ (pc = "raised" /\ attempts = <<>>)
         => /\ lastReq = "login"
            /\ \/ ErrorStatusResponse(lastResp)
               \/ NoTokenField(lastResp)
               \/ \E f \in DOMAIN lastResp.body.v : lastResp.body.v[f].t # "str"

\* C17 witness: the login was answered 200 with a JSON object without any
\* token field, and the run has aborted
C17_Witness ==
    /\ pc = "raised"
    /\ lastReq = "login"
    /\ lastResp = Http(200, <<>>, Dict(<<>>))
    /\ attempts = <<>>

\* the run has ended with an unhandled exception after a successful login
RaisedAfterLogin == pc = "raised" /\ lastReq # "login"

\* C18: once the login has succeeded the run never ends with an unhandled
\* exception, whatever the triggers and the polls bring, and it stops only
\* when its plan is completed.
C18_AuthenticatedRunCompletes ==
    /\ ~RaisedAfterLogin
    /\ ~ENABLED Next => pc \in {"done", "raised"}

\* C18, what holds: the run stops only completed or raised, and after a
\* successful login it raises only in trigger_build: in the orchestration
\* scripts on a 2xx response whose JSON body is not an object, in
\* sisense_trigger_build.py on a transport exception or a 4xx/5xx status.
C18_RaisesOnlyInTrigger ==
    /\ ~ENABLED Next => pc \in {"done", "raised"}
    /\ RaisedAfterLogin
         => /\ lastReq = "trigger"
            /\ IF script \in Orchestrators
               THEN /\ lastResp.kind = "http"
                    /\ lastResp.code < 300
                    /\ lastResp.body.t \notin {"dict", "invalid"}
               ELSE ErrorStatusResponse(lastResp)

\* the trigger got a success response: HTTP 2xx with a JSON body
SuccessfulTriggerResponse(r) ==
    r.kind = "http" /\ r.code < 300 /\ r.body.t # "invalid"

\* the value of the field, when the body is an object that holds it non-empty
Field(body, f) ==
    IF body.t = "dict" /\ f \in DOMAIN body.v /\ Truthy(body.v[f])
    THEN body.v[f]
    ELSE None

\* the first non-empty of id, oid, _id, and otherwise the whole decoded body
\* rendered as a string
ExpectedHandle(body) ==
    IF Field(body, "id") # None THEN Field(body, "id")
    ELSE IF Field(body, "oid") # None THEN Field(body, "oid")
    ELSE IF Field(body, "_id") # None THEN Field(body, "_id")
    ELSE Str(IF body.t = "dict" THEN Repr(body) ELSE PyStr(body))

\* C19: in the orchestration scripts, after a trigger that got a success
\* response the call has returned: with a non-empty handle, which is the
\* first non-empty of the body's id, oid, _id fields and otherwise the body
\* rendered as a string, or as a failed trigger; this for every shape of body.
C19_HandleOrFailedTrigger ==
    (script \in Orchestrators /\ lastReq = "trigger"
       /\ SuccessfulTriggerResponse(lastResp))
        => /\ pc # "raised"
           /\ \/ attempts[Len(attempts)].handle
              \/ attempts[Len(attempts)].notes >= 1
           /\ (script = "sisense_build_chain" /\ Len(attempts) <= NumFast)
                => /\ Len(fast_build_ids) = Len(attempts)
                   /\ fast_build_ids[Len(attempts)] = ExpectedHandle(lastResp.body)
                   /\ Truthy(fast_build_ids[Len(attempts)])

\* C19 for the bodies that are JSON objects
C19_HandleFromObjectBody ==
    (script \in Orchestrators /\ lastReq = "trigger"
       /\ SuccessfulTriggerResponse(lastResp) /\ lastResp.body.t = "dict")
        => /\ pc # "raised"
           /\ attempts[Len(attempts)].handle
           /\ (script = "sisense_build_chain" /\ Len(attempts) <= NumFast)
                => /\ Len(fast_build_ids) = Len(attempts)
                   /\ fast_build_ids[Len(attempts)] = ExpectedHandle(lastResp.body)
                   /\ Truthy(fast_build_ids[Len(attempts)])

\* a cube of the parallel batch got the handle "b1" from the _id field, the
\* id field being empty
C19_HandleFromAlternateField ==
    /\ script = "sisense_build_chain"
    /\ lastReq = "trigger"
    /\ Len(attempts) <= NumFast
    /\ SuccessfulTriggerResponse(lastResp)
    /\ lastResp.body.t = "dict"
    /\ "_id" \in DOMAIN lastResp.body.v
    /\ fast_build_ids[Len(attempts)] = B1

\* C20: no request of a run blocks the run for ever: whatever the server
\* does, leaving a request unanswered included, the program never stays
\* inside a network call, each call being bounded by its own timeout.
C20_NoRequestBlocksTheRun == pc # "blocked"

\* C20 as far as it holds: a run can only stay inside a request that has no
\* timeout, and the notification is not one of them
C20_OnlyUnboundedRequestsBlock ==
    /\ RequestTimeout("notification") # None
    /\ pc = "blocked"
         => /\ lastReq \in {"login", "trigger", "status"}
            /\ RequestTimeout(lastReq) = None
            /\ ~ENABLED NextNet

\* a status GET of a build's wait is left unanswered before the deadline
C20_PollBlocked ==
    /\ pc = "blocked"
    /\ lastReq = "status"
    /\ wpc = "blocked"
    /\ clock <= deadline

\* the poll raised: requests.get raised (transport failure), or a 2xx
\* response came with a body that cannot be decoded as JSON
PollException(r) ==
    \/ r.kind = "exception"
    \/ r.kind = "http" /\ r.code < 300 /\ r.body.t = "invalid"

\* C21: a status poll that raised (transport failure, or an undecodable body
\* of a 2xx response) ends the wait at once with ERROR_EXCEPTION: the build
\* has its one outcome, no further GET or sleep can follow, and the caller
\* gets the value returned, not the exception.
C21_PollExceptionEndsWait ==
    (lastReq = "status" /\ PollException(lastResp))
        => /\ wpc = "returned"
           /\ status = "ERROR_EXCEPTION"
           /\ attempts[cur].outcomes = 1
           /\ ~attempts[cur].ok
           /\ pc # "raised"
           /\ ~ENABLED Poll /\ ~ENABLED Sleep /\ ~ENABLED CheckDeadline

\* C21 witness: the second poll got a 200 whose body is not JSON
C21_Witness ==
    /\ wpc = "returned"
    /\ status = "ERROR_EXCEPTION"
    /\ lastResp.kind = "http" /\ lastResp.code = 200
    /\ lastResp.body = NotJson
    /\ gets = 2

\* where the loop of commpeak_orchestrator.py is still going on
InLoop == pc \in {"loop", "cube1_waiting", "cube2_trigger", "cube2_waiting"}

\* C22: no trigger is retried.  A target is triggered a second time only in
\* the bounded loop, and only when its earlier trigger returned a handle; in
\* the batch and chain plans every target is triggered at most once; and a
\* trigger of a loop target that returned no handle ends the loop: no loop
\* target is triggered after it.
C22_NoTriggerRetry ==
    /\ \A a, b \in DOMAIN attempts :
         (a < b /\ attempts[a].target = attempts[b].target)
            => /\ script = "commpeak_orchestrator"
               /\ attempts[a].target \in LoopTargets
               /\ attempts[a].handle /\ ~attempts[a].failed
    /\ \A a \in DOMAIN attempts :
         attempts[a].target \notin LoopTargets
            => TimesTriggered(attempts[a].target) = 1
    /\ \A a \in DOMAIN attempts :
         (attempts[a].target \in LoopTargets /\ ~attempts[a].handle)
            => /\ ~InLoop
               /\ \A b \in DOMAIN attempts :
                    b > a => attempts[b].target \notin LoopTargets

\* C22 witness: the trigger of CUBE1 failed in the second iteration, after a
\* first iteration in which it returned a handle, and the run went on to its
\* end without triggering CUBE1 again
C22_Witness ==
    /\ script = "commpeak_orchestrator"
    /\ pc = "done"
    /\ loops = 2
    /\ TimesTriggered(<<"CUBE1", 1>>) = 2
    /\ \E a \in DOMAIN attempts :
         attempts[a].target = <<"CUBE1", 1>> /\ attempts[a].failed

\* the poll was non-terminal: a transient 400/404, or a 2xx report of no
\* word of the vocabulary
NonTerminalPoll(r) == TransientResponse(r) \/ NonTerminalReport(r)

\* C23: the deadline is tested only after a poll, and only after a
\* non-terminal one.  Whatever the timeout, zero included, the wait issues a
\* GET before it tests the deadline or returns; TIMEOUT comes from the
\* deadline test only after a non-terminal poll with the clock past the
\* deadline; and a poll that ends past the deadline with a word of the
\* vocabulary, an HTTP error or an exception returns that outcome, not
\* TIMEOUT in its place.
C23_DeadlineOnlyAfterNonTerminalPoll ==
    /\ wpc \in {"check", "sleep", "returned"} => gets >= 1
    /\ wpc \in {"check", "sleep"}
         => lastReq = "status" /\ NonTerminalPoll(lastResp)
    /\ (wpc = "returned" /\ status = "TIMEOUT")
         => \/ Reports(lastResp, <<"T","I","M","E","O","U","T">>)
            \/ NonTerminalPoll(lastResp) /\ clock > deadline
    /\ \A w \in Vocabulary :
         (lastReq = "status" /\ Reports(lastResp, w))
            => wpc = "returned" /\ status = Join(w)
    /\ (lastReq = "status" /\ ErrorResponse(lastResp))
         => wpc = "returned" /\ status = "ERROR_HTTP"
    /\ (lastReq = "status" /\ PollException(lastResp))
         => wpc = "returned" /\ status = "ERROR_EXCEPTION"

\* C23 witness: with a zero timeout the first GET was made all the same, it
\* ended past the deadline and the status it read was returned
C23_Witness ==
    /\ wpc = "returned"
    /\ gets = 1 /\ sleeps = 0
    /\ clock > deadline
    /\ status = "SUCCEEDED"
    /\ Reports(lastResp, <<"S","U","C","C","E","E","D","E","D">>)

\* what C24 asks of one step of a wait entered at t0 = deadline - BuildTimeout
C24_Step ==
    /\ gets' = gets + 1 => clock <= deadline + PollInterval
    /\ (wpc = "check" /\ clock = deadline)
         => wpc' = "sleep" /\ status' = status
    /\ (wpc = "check" /\ wpc' = "returned")
         => clock > deadline /\ status' = "TIMEOUT"
    /\ wpc = "sleep" => wpc' = "get" /\ clock' = clock + PollInterval
    /\ deadline' = deadline

\* C24: with integer clock values, a wait entered at t0 with timeout T
\* (deadline = t0 + T) and poll interval P starts no status GET later than
\* t0 + T + P, and the deadline check returns TIMEOUT only when the clock is
\* strictly greater than t0 + T: a check made at exactly t0 + T sleeps, and
\* the waiter polls once more.
C24_LastPollBound ==
    /\ [](/\ deadline - BuildTimeout \in 0..MaxStart
          /\ wpc = "get" => clock <= deadline + PollInterval
          /\ wpc = "sleep" => clock <= deadline)
    /\ [][C24_Step]_vars

\* C24 witness: the check after the second poll was made at exactly t0 + T,
\* the waiter slept, and the third GET started at t0 + T + P
C24_Witness ==
    /\ gets = 3 /\ sleeps = 2
    /\ lastReq = "status"
    /\ wpc = "check"
    /\ clock = deadline + PollInterval

\* where the plan goes on once the wait entered at waitingPc has returned, ok
\* telling whether it returned a status of SUCCESS_STATUSES and last whether
\* the cube is the last of the parallel batch
AfterWait(waitingPc, ok, last) ==
    CASE waitingPc = "fast_waiting" -> IF last THEN "dwh_trigger" ELSE "fast_wait"
      [] waitingPc = "dwh_waiting" -> IF ok THEN "mod_trigger" ELSE "done"
      [] waitingPc = "mod_waiting" -> IF ok THEN "final_trigger" ELSE "done"
      [] waitingPc = "cube1_waiting" ->
           IF ok THEN "cube2_trigger" ELSE "cube3_trigger"
      [] waitingPc = "cube2_waiting" -> IF ok THEN "loop" ELSE "cube3_trigger"
      [] waitingPc = "cube3_waiting" -> "cube4_trigger"
      [] OTHER -> "done"

\* a notification, delivered or not, leaves the plan alone: after a trigger
\* that returned no handle and after a wait that returned, the program is
\* where the plan puts it for that outcome, and one message more was sent
\* about the build exactly when the wait returned a non-success status
C25_Step ==
    script \in Orchestrators
        => /\ (TriggerStep /\ attempts'[Len(attempts')].notes >= 1)
                => pc' = AfterFailedTrigger(attempts'[Len(attempts')].target)
           /\ (wpc = "returned" /\ wpc' = "idle")
                => /\ pc' = AfterWait(pc, status \in {"SUCCEEDED", "SUCCESS",
                                                      "DONE", "COMPLETED"},
                                      i = NumFast)
                   /\ attempts'[cur].notes =
                        attempts[cur].notes
                          + (IF status \in {"SUCCEEDED", "SUCCESS", "DONE",
                                            "COMPLETED"} THEN 0 ELSE 1)

\* C25: in the orchestration scripts every build attempt that ended
\* non-success (a trigger that gave no handle, or a wait that returned a
\* status outside SUCCEEDED, SUCCESS, DONE, COMPLETED) has caused at least one
\* send_telegram_message call, and one that ended Succeeded none; a
\* notification that failed (HTTP error or exception) is never the reason of
\* an exception, and the plan goes on after it as after a delivered one.
C25_NonSuccessNotified ==
    /\ [](script \in Orchestrators
            => \A a \in DOMAIN attempts :
                 /\ ~attempts[a].handle => attempts[a].notes >= 1
                 /\ WaitFailed(a) => attempts[a].notes >= 1
                 /\ Succeeded(a) => attempts[a].notes = 0
                 /\ attempts[a].lost
                      => attempts[a].notes >= 1 /\ ~(pc = "raised" /\ cur = a))
    /\ [][C25_Step]_vars

\* C25 apart from the trigger call that an exception left (C19): that
\* attempt has no handle, and no message was sent about it
C25_NonSuccessNotifiedUnlessRaised ==
    /\ [](script \in Orchestrators
            => \A a \in DOMAIN attempts :
                 /\ NonSuccess(a) => attempts[a].notes >= 1
                 /\ Succeeded(a) => attempts[a].notes = 0
                 /\ (~attempts[a].handle /\ attempts[a].notes = 0)
                      => pc = "raised" /\ a = Len(attempts)
                 /\ attempts[a].lost
                      => attempts[a].notes >= 1 /\ ~(pc = "raised" /\ cur = a))
    /\ [][C25_Step]_vars

\* the message about the failed trigger of CUBE1 was not delivered, and the
\* run went on to trigger CUBE3 and CUBE4, whose builds succeeded
C25_LostNotificationPlanGoesOn ==
    /\ script = "commpeak_orchestrator"
    /\ telegram_configured
    /\ pc = "done"
    /\ Len(attempts) = 3
    /\ attempts[1].lost /\ attempts[1].failed
    /\ Succeeded(2) /\ Succeeded(3)

\* the first target of the sequential chain of sisense_build_chain.py
Dwh == <<"BIG_CUBES", 1>>

\* the login returned a token and the program went on
Authenticated == attempts # <<>> \/ pc \notin {"login", "raised"}

\* the parallel batch is through when the first big cube is triggered: every
\* fast cube was triggered before, once, and each handle was waited on and
\* has its outcome
FastBatchThroughBeforeDwh ==
    \A d \in DOMAIN attempts :
        attempts[d].target = Dwh
            => /\ d = NumFast + 1
               /\ \A a \in 1..NumFast :
                    /\ attempts[a].target = <<"FAST_CUBES", a>>
                    /\ attempts[a].handle
                         => attempts[a].waits = 1 /\ attempts[a].outcomes = 1
                    /\ ~attempts[a].handle => attempts[a].waits = 0

\* C26: in sisense_build_chain.py every run that authenticated has triggered
\* the first big cube exactly once by the time it is over, whatever the fast
\* batch brought; and the trigger comes only after every wait of the fast
\* batch has returned.
C26_DwhTriggeredOnceAfterBatch ==
    script = "sisense_build_chain"
        => /\ TimesTriggered(Dwh) <= 1
           /\ (Over /\ Authenticated) => TimesTriggered(Dwh) = 1
           /\ FastBatchThroughBeforeDwh

\* C26 for the runs that no exception ended inside the parallel batch
C26_DwhTriggeredOnceUnlessRaised ==
    script = "sisense_build_chain"
        => /\ TimesTriggered(Dwh) <= 1
           /\ pc = "done" => TimesTriggered(Dwh) = 1
           /\ (Over /\ Authenticated /\ TimesTriggered(Dwh) = 0)
                => /\ pc = "raised"
                   /\ attempts[Len(attempts)].target[1] = "FAST_CUBES"
                   /\ ~PostFailed(lastResp)
           /\ FastBatchThroughBeforeDwh

\* every trigger of the parallel batch failed, and the first big cube was
\* triggered all the same
C26_AllFastTriggersFailed ==
    /\ script = "sisense_build_chain"
    /\ Len(attempts) = NumFast + 1
    /\ \A a \in 1..NumFast : attempts[a].failed /\ attempts[a].waits = 0
    /\ attempts[NumFast + 1].target = Dwh

====
